---- MODULE Spec2Model ----
(***************************************************************************)
(* State-machine model of lib/latest/MQRouter.js (class MQRouter).         *)
(*                                                                         *)
(* One router instance, its two routing tables, its event emitter, and the *)
(* connector it talks to.  Every public call of sendMessage, sendRequest   *)
(* or subscribe is a process (a "call") whose position is pc[c]; a call is *)
(* suspended only where the code awaits the connector (subscribe,          *)
(* sendMessage) or the 'selfSubscribed' event.  Timers of the correlation  *)
(* table and deliveries from the broker are environment actions; one       *)
(* inbound delivery is followed at a time, in lastDelivery.                *)
(*                                                                         *)
(* The two routing tables (MQRequestsRoutingTable, MQQueuesRoutingTable)   *)
(* and Helpers.js are not part of the available sources; their operations  *)
(* are modelled from the written specification (sections 4.2 and 4.3).     *)
(***************************************************************************)
EXTENDS Integers, Sequences, FiniteSets, TLC

\* ------------------------------------------------------------------ bounds
MaxCalls == 2
MaxClock == 3

Calls == 1..MaxCalls

\* ------------------------------------------------------- program constants
DefaultTTLSeconds == 5
MS_FACTOR == 1000

\* -------------------------------------------------------------- JS values
Undefined == "undefined"
Null == "null"
NoCause == [name |-> "null"]

\* new IError({name, cause}) : the array form Reflect.construct(IError, [{...}])
IError(name, cause) == [name |-> name, cause |-> cause]

\* Reflect.construct(IError, {name, source, cause}) : the second argument is a
\* plain object, read as an array-like of length 0, so the constructor runs
\* with no argument at all.  Whatever it then produces (an IError with its
\* defaults, or a TypeError from destructuring undefined), the error raised
\* carries neither the name nor the cause written in the source.
IErrorNoArgs(name, cause) == [name |-> "", cause |-> NoCause]

\* a TypeError raised by the runtime
TypeError == [name |-> "TypeError", cause |-> NoCause]

\* the error a failing connector call rejects with
TransportError == [name |-> "TransportError", cause |-> NoCause]

\* ------------------------------------------------------------------ inputs
\* {message, destination.queue} of a call
Buffer(bytes) == [isBuffer |-> TRUE, bytes |-> bytes]
NotBuffer(bytes) == [isBuffer |-> FALSE, bytes |-> bytes]
CallInputs ==
  {[message |-> Buffer("ping"), destination |-> "svc"],
   [message |-> Buffer("ping"), destination |-> ""],
   [message |-> NotBuffer("ping"), destination |-> "svc"]}

\* options.ttl the application passes with its calls; 0 is "not given"
TtlOptions == {0, 2000}

NoArgs == [kind |-> "none", message |-> [isBuffer |-> FALSE, bytes |-> ""],
           destination |-> "", ttl |-> 0]

RouterName == "A"

\* the own listen address the router is constructed with
Listen == [queue |-> "own-q", topic |-> "own.topic", exchange |-> "ex"]

\* the defaultHandler the router is constructed with (none)
defaultHandler == Null

\* {handler, queue, topic, exchange} of a public subscribe call
AppHandler == "appHandler"
SubscribeInputs == {[queue |-> "work", topic |-> "", exchange |-> ""]}

VARIABLES
  identification,          \* this.identification : subscribed / subscribing
  returnDestination,       \* this.returnDestination.queue
  queuesRoutingTable,      \* registrations of the queue routing table
  nextIndex,               \* next provisional index of the queue routing table
  requestsRoutingTable,    \* pending entries of the correlation table
  futures,                 \* the promises handed out by register, by id
  clock,                   \* last reading of process.hrtime(startTime)
  selfSubscribedListeners, \* once-listeners of 'selfSubscribed', in order
  events,                  \* what mqrEvents has emitted
  connector,               \* calls received by the connector
  callerOptions,           \* the options object the application passes
  pc,                      \* position of each call
  args,                    \* arguments of each call
  firstTime,               \* call entered the bootstrap before any completion
  subIndex,                \* index registered by the call's self-subscription
  checkResult,             \* how the call left checkIfIsSelfSubscribed...
  thrown,                  \* the error that call left it with
  reqId,                   \* id of the envelope the call built
  sendError,               \* the error sendMQMsg caught from the connector
  outcome,                 \* what the call's returned promise settled with
  lastDelivery             \* the inbound delivery being handed back

vars == <<identification, returnDestination, queuesRoutingTable, nextIndex,
          requestsRoutingTable, futures, clock, selfSubscribedListeners,
          events, connector, callerOptions, pc, args, firstTime, subIndex, checkResult,
          thrown, reqId, sendError, outcome,
          lastDelivery>>

routerVars == <<identification, returnDestination, queuesRoutingTable,
                nextIndex, selfSubscribedListeners>>
callVars == <<callerOptions, pc, args, firstTime, subIndex, checkResult, thrown, reqId,
              sendError, outcome>>
tableVars == <<requestsRoutingTable, futures>>
deliveryVars == <<lastDelivery>>

\* ------------------------------------------------------- envelope builder
\* getMessageId : `${name}.${elapsed nanoseconds}`; two readings of the
\* clock are taken to differ (clock + 1 at every reading)
getMessageId(reading) == RouterName \o "." \o ToString(reading)

\* this.mqStructure({id, replyTo, replyOn, from, to, message})
mqStructure(id, replyTo, replyOn, from, to, message) ==
  [id |-> id, replyTo |-> replyTo, replyOn |-> replyOn, from |-> from,
   to |-> to, message |-> message]

\* serializer.serialize : the envelope as a positional wire frame
serialize(m) == <<"mq", m.id, m.replyTo, m.replyOn, m.from, m.to, m.message>>

\* a raw payload the serializer cannot decode
Garbage == <<"??">>

\* serializer.unserialize : decodable frames only
Decodable(w) == Len(w) = 7 /\ w[1] = "mq"
unserialize(w) ==
  [id |-> w[2], replyTo |-> w[3], replyOn |-> w[4], from |-> w[5],
   to |-> w[6], message |-> w[7]]

\* validateDestination : `queue && queue.length !== 0`
validateDestination(destination) ==
  destination # Undefined /\ destination # ""

\* what validateDestination throws: IError is called without `new` inside
\* Reflect.construct(IError({...})), which raises a TypeError
validateDestinationError == TypeError

\* buildRequest with id and replyTo both set to the fresh id
buildRequestEnvelopeSelfReply(message, replyId, reading) ==
  mqStructure(getMessageId(reading), getMessageId(reading),
              [queue |-> returnDestination], RouterName, "", message.bytes)

\* buildRequest, the envelope part: replyTo is the replyId parameter
buildRequestEnvelope(message, replyId, reading) ==
  mqStructure(getMessageId(reading), replyId,
              [queue |-> returnDestination], RouterName, "", message.bytes)

\* what buildRequest throws for a payload that is not a Buffer
buildRequestError ==
  IErrorNoArgs("MQ_ROUTER_BUILD_REQUEST_NO_BUFFER", NoCause)

\* ------------------------------------------- correlation table (spec 4.2)
HasRequest(tbl, id) == \E e \in tbl : e.id = id

RequestTimeoutError(id) ==
  [name |-> "RequestTimeoutError", id |-> id, cause |-> NoCause]
DuplicateIdError == [name |-> "DuplicateIdError", cause |-> NoCause]

PendingFuture == [state |-> "pending", value |-> NoCause, settles |-> 0]

\* settle a pending request: the one place a future changes state
Settle(fut, id, state, value) ==
  [fut EXCEPT ![id] = [state |-> state, value |-> value,
                       settles |-> @.settles + 1]]

\* register(id, ttl) : insert, arm the timer, hand out the future
requestsRegister(tbl, fut, id, ttl) ==
  IF HasRequest(tbl, id)
    THEN [ok |-> FALSE, table |-> tbl, futures |-> fut]
    ELSE [ok |-> TRUE,
          table |-> tbl \cup {[id |-> id, ttl |-> ttl]},
          futures |-> (id :> PendingFuture) @@ fut]

\* callById(id, message) : settle with the reply, remove, cancel the timer;
\* absent id: no-op
requestsCallById(tbl, fut, id, message) ==
  IF HasRequest(tbl, id)
    THEN [table |-> {e \in tbl : e.id # id},
          futures |-> Settle(fut, id, "resolved", message)]
    ELSE [table |-> tbl, futures |-> fut]

\* unregister(id, error) : settle with a rejection carrying error, remove
requestsUnregister(tbl, fut, id, error) ==
  IF HasRequest(tbl, id)
    THEN [table |-> {e \in tbl : e.id # id},
          futures |-> Settle(fut, id, "rejected", error)]
    ELSE [table |-> tbl, futures |-> fut]

\* the timer of entry id fires
requestsTimeout(tbl, fut, id) ==
  IF HasRequest(tbl, id)
    THEN [table |-> {e \in tbl : e.id # id},
          futures |-> Settle(fut, id, "rejected", RequestTimeoutError(id))]
    ELSE [table |-> tbl, futures |-> fut]

\* ----------------------------------------- queue routing table (spec 4.3)
queuesRegister(tbl, index, handler, queue, topic, exchange) ==
  tbl \cup {[index |-> index, handler |-> handler, queue |-> queue,
             topic |-> topic, exchange |-> exchange,
             consumerTag |-> Null]}

queuesUpdate(tbl, index, queue, consumerTag) ==
  {IF r.index = index
     THEN [r EXCEPT !.queue = queue, !.consumerTag = consumerTag]
     ELSE r : r \in tbl}

queuesUnregister(tbl, index) == {r \in tbl : r.index # index}

HasHandler(tbl, consumerTag) == \E r \in tbl : r.consumerTag = consumerTag
getHandlerByConsumerTag(tbl, consumerTag) ==
  (CHOOSE r \in tbl : r.consumerTag = consumerTag).handler
HandlerNotFoundError == [name |-> "HandlerNotFoundError", cause |-> NoCause]

\* ---------------------------------------------------------------- broker
\* the queue name and consumer tag the broker confirms for subscribe n
BrokerQueue(n) == "q-" \o ToString(n)
BrokerTag(n) == "ct-" \o ToString(n)

\* -------------------------------------------------------------------- Init
NoOutcome == [type |-> "none"]
NoDelivery == [via |-> "none", id |-> "", replyTo |-> "", replyOn |-> Null,
               consumerTag |-> "", tagKnown |-> FALSE, decodable |-> FALSE,
               pendingBefore |-> FALSE, changed |-> FALSE,
               invoked |-> <<>>, returned |-> "none", callById |-> <<>>,
               sends |-> <<>>, awaiting |-> FALSE,
               raised |-> NoCause, emits |-> 0]

Init ==
  /\ identification = [subscribed |-> FALSE, subscribing |-> FALSE]
  /\ returnDestination = Null
  /\ queuesRoutingTable = {}
  /\ nextIndex = 0
  /\ requestsRoutingTable = {}
  /\ futures = [i \in {} |-> PendingFuture]
  /\ clock = 0
  /\ selfSubscribedListeners = <<>>
  /\ events = [selfSubscribed |-> <<>>, timeout |-> 0]
  /\ connector = [subscribes |-> 0, confirmed |-> 0, sends |-> <<>>]
  /\ callerOptions \in [ttl : TtlOptions]
  /\ pc = [c \in Calls |-> "idle"]
  /\ args = [c \in Calls |-> NoArgs]
  /\ firstTime = [c \in Calls |-> FALSE]
  /\ subIndex = [c \in Calls |-> Null]
  /\ checkResult = [c \in Calls |-> "none"]
  /\ thrown = [c \in Calls |-> NoCause]
  /\ reqId = [c \in Calls |-> ""]
  /\ sendError = [c \in Calls |-> NoCause]
  /\ outcome = [c \in Calls |-> NoOutcome]
  /\ lastDelivery = NoDelivery

\* ------------------------------------------------------------ the router
defaultTTL == DefaultTTLSeconds * MS_FACTOR

Range(f) == {f[i] : i \in DOMAIN f}

\* the error is dropped and the promise of call c is left pending
RejectNeverSettles(c, error) ==
  /\ pc' = [pc EXCEPT ![c] = "done"]
  /\ UNCHANGED outcome

\* the promise of call c rejects with error
Reject(c, error) ==
  /\ pc' = [pc EXCEPT ![c] = "done"]
  /\ outcome' = [outcome EXCEPT ![c] = [type |-> "rejected", error |-> error]]

\* sendMessage, try/catch around `return this.sendMQMsg(...)`: the promise is
\* returned without being awaited, so a rejection of sendMQMsg settles the
\* caller's promise directly and the catch block is not entered
sendMessageRejection(cause) == cause

\* sendRequest, the same shape for its `return this.sendMQMsg(...)`
sendRequestRejection(cause) == cause

\* sendRequest, catch entered from `await checkIfIsSelfSubscribedForResponses()`
sendRequestCheckRejection(cause) ==
  IError("MQ_ROUTER_SEND_REQUEST_ERROR", cause)

callerRejection(isRequest, cause) ==
  IF isRequest THEN sendRequestRejection(cause)
               ELSE sendMessageRejection(cause)

\* `if (isRequest)` skipped: nothing is registered before the send
registerIfRequestSkipped(isRequest, reg) ==
  UNCHANGED <<requestsRoutingTable, futures>>

\* `if (isRequest) { response = this.requestsRoutingTable.register(...) }`
registerIfRequest(isRequest, reg) ==
  IF isRequest
    THEN /\ requestsRoutingTable' = reg.table
         /\ futures' = reg.futures
    ELSE UNCHANGED <<requestsRoutingTable, futures>>

\* sendMQMsg up to the point where connector.sendMessage is awaited
sendMQMsg(c, message, destination, options, isRequest) ==
  IF ~validateDestination(destination) THEN
    /\ Reject(c, callerRejection(isRequest, validateDestinationError))
    /\ UNCHANGED <<clock, requestsRoutingTable, futures, connector, reqId>>
  ELSE IF ~message.isBuffer THEN
    /\ Reject(c, callerRejection(isRequest, buildRequestError))
    /\ UNCHANGED <<clock, requestsRoutingTable, futures, connector, reqId>>
  ELSE
    LET reading == clock + 1
        m == buildRequestEnvelope(message, "", reading)
        lOptions == [ttl |-> IF options.ttl # 0 THEN options.ttl
                                                ELSE defaultTTL]
        reg == requestsRegister(requestsRoutingTable, futures, m.id,
                                lOptions.ttl)
    IN /\ clock' = reading
       /\ reqId' = [reqId EXCEPT ![c] = m.id]
       /\ IF isRequest /\ ~reg.ok THEN
            /\ Reject(c, callerRejection(isRequest, DuplicateIdError))
            /\ UNCHANGED <<requestsRoutingTable, futures, connector>>
          ELSE
            /\ registerIfRequest(isRequest, reg)
            /\ connector' = [connector EXCEPT !.sends =
                 Append(@, [call |-> c, queue |-> destination,
                            message |-> serialize(m),
                            options |-> lOptions])]
            /\ pc' = [pc EXCEPT ![c] = "sending"]
            /\ UNCHANGED outcome

\* sendMQMsg, connector.sendMessage resolved: `return response`
sendMQMsgReturn(c, isRequest) ==
  /\ pc' = [pc EXCEPT ![c] = "done"]
  /\ outcome' = [outcome EXCEPT ![c] =
       IF isRequest THEN [type |-> "future", id |-> reqId[c]]
                    ELSE [type |-> "resolved", value |-> TRUE]]
  /\ UNCHANGED <<requestsRoutingTable, futures>>

\* sendMQMsg's catch rethrowing for a request too, with no unregister
sendMQMsgCatchRethrow(c, isRequest, error) ==
  /\ sendError' = [sendError EXCEPT ![c] = error]
  /\ Reject(c, callerRejection(isRequest, error))
  /\ UNCHANGED <<requestsRoutingTable, futures>>

\* sendMQMsg, connector.sendMessage rejected: the catch block
sendMQMsgCatch(c, isRequest, error) ==
  IF ~isRequest THEN
    /\ sendError' = [sendError EXCEPT ![c] = error]
    /\ Reject(c, callerRejection(isRequest, error))
    /\ UNCHANGED <<requestsRoutingTable, futures>>
  ELSE
    LET u == requestsUnregister(requestsRoutingTable, futures, reqId[c],
                                error)
    IN /\ sendError' = [sendError EXCEPT ![c] = error]
       /\ requestsRoutingTable' = u.table
       /\ futures' = u.futures
       /\ pc' = [pc EXCEPT ![c] = "done"]
       /\ outcome' = [outcome EXCEPT ![c] =
                        [type |-> "future", id |-> reqId[c]]]

\* the address checkIfIsSelfSubscribedForResponses hands to subscribe: it
\* reads identification.queue / .topic / .exchange, which do not exist (the
\* address is under identification.listen), so subscribe's defaults apply
selfSubscribeAddress == [queue |-> "", topic |-> "", exchange |-> ""]

\* subscribe up to `await this.connector.subscribe(...)`: the provisional
\* registration, then the transport call
subscribe(c, handler, queue, topic, exchange) ==
  /\ queuesRoutingTable' =
       queuesRegister(queuesRoutingTable, nextIndex, handler, queue, topic,
                      exchange)
  /\ nextIndex' = nextIndex + 1
  /\ subIndex' = [subIndex EXCEPT ![c] = nextIndex]
  /\ connector' = [connector EXCEPT !.subscribes = @ + 1]

\* subscribe after connector.subscribe resolved with {queue, consumerTag}
subscribeUpdate(c, registeredQueue, consumerTag) ==
  queuesRoutingTable' =
    queuesUpdate(queuesRoutingTable, subIndex[c], registeredQueue, consumerTag)

\* subscribe's catch: the rollback of the provisional registration
subscribeRollback(c) ==
  queuesRoutingTable' = queuesUnregister(queuesRoutingTable, subIndex[c])

\* the value written to identification.subscribing before the subscribe
subscribingWhileBootstrapping == FALSE

\* mqrEvents.emit('selfSubscribed', {error}) : every once-listener settles
\* its waitForSelfSubscription promise
emitSelfSubscribed(c, error, ownPc) ==
  /\ events' = [events EXCEPT !.selfSubscribed = Append(@, error)]
  /\ selfSubscribedListeners' = <<>>
  /\ pc' = [d \in Calls |->
       IF d = c THEN ownPc
       ELSE IF d \in Range(selfSubscribedListeners)
         THEN (IF error = NoCause THEN "checked" ELSE "checkFailed")
         ELSE pc[d]]
  /\ checkResult' = [d \in Calls |->
       IF d = c \/ d \in Range(selfSubscribedListeners)
         THEN (IF error = NoCause THEN "ok" ELSE "failed")
         ELSE checkResult[d]]
  /\ thrown' = [d \in Calls |->
       IF d = c \/ d \in Range(selfSubscribedListeners)
         THEN error ELSE thrown[d]]

\* checkIfIsSelfSubscribedForResponses up to `await this.subscribe(...)`,
\* with subscribe up to `await this.connector.subscribe(...)`
checkIfIsSelfSubscribedForResponses(c) ==
  IF identification.subscribed THEN
    /\ pc' = [pc EXCEPT ![c] = "checked"]
    /\ checkResult' = [checkResult EXCEPT ![c] = "ok"]
    /\ UNCHANGED <<identification, selfSubscribedListeners,
                   queuesRoutingTable, nextIndex, subIndex, connector>>
  ELSE IF identification.subscribing THEN
    \* waitForSelfSubscription
    /\ selfSubscribedListeners' = Append(selfSubscribedListeners, c)
    /\ pc' = [pc EXCEPT ![c] = "waiting"]
    /\ UNCHANGED <<identification, checkResult, queuesRoutingTable,
                   nextIndex, subIndex, connector>>
  ELSE
    /\ identification' = [identification EXCEPT
                            !.subscribing = subscribingWhileBootstrapping]
    /\ subscribe(c, "ownHandler", selfSubscribeAddress.queue,
                 selfSubscribeAddress.topic, selfSubscribeAddress.exchange)
    /\ pc' = [pc EXCEPT ![c] = "subscribing"]
    /\ UNCHANGED <<checkResult, selfSubscribedListeners>>

\* what subscribe throws when connector.subscribe rejects with cause
subscribeError(cause) == IErrorNoArgs("MQ_ROUTER_SUBSCRIBE", cause)

\* the self-subscribe error built with the object form of Reflect.construct
selfSubscribeErrorObjectForm(cause) ==
  IErrorNoArgs("MQ_ROUTER_SELF_SUBSCRIBE", cause)

\* what checkIfIsSelfSubscribedForResponses throws when subscribe fails
selfSubscribeError(cause) == IError("MQ_ROUTER_SELF_SUBSCRIBE", cause)

\* --------------------------------------------------------------- actions
\* the continuation of an awaited promise that is already settled runs as a
\* microtask, before any timer, connector callback or new macrotask
MicrotasksDrained == \A c \in Calls : pc[c] \notin {"checked", "checkFailed"}

NextCall(c) ==
  /\ MicrotasksDrained
  /\ pc[c] = "idle" /\ \A d \in Calls : d < c => pc[d] # "idle"

\* a caller invokes router.sendMessage({message, destination, options})
SendMessage(c) ==
  /\ NextCall(c)
  /\ \E in \in CallInputs :
       /\ args' = [args EXCEPT ![c] = [kind |-> "message",
                     message |-> in.message, destination |-> in.destination,
                     ttl |-> callerOptions.ttl]]
       /\ sendMQMsg(c, in.message, in.destination, callerOptions, FALSE)
  /\ UNCHANGED <<callerOptions, routerVars, events, firstTime, subIndex, checkResult,
                 thrown, sendError, deliveryVars>>

\* a caller invokes router.sendRequest({message, destination, options})
SendRequest(c) ==
  /\ NextCall(c)
  /\ \E in \in CallInputs :
       args' = [args EXCEPT ![c] = [kind |-> "request",
                  message |-> in.message, destination |-> in.destination,
                  ttl |-> callerOptions.ttl]]
  /\ firstTime' = [firstTime EXCEPT ![c] = (events.selfSubscribed = <<>>)]
  /\ checkIfIsSelfSubscribedForResponses(c)
  /\ UNCHANGED <<returnDestination, tableVars, clock, events, callerOptions,
                 thrown, reqId, sendError, outcome, deliveryVars>>

\* connector.subscribe resolves for the self-subscription of call c
SelfSubscribeOk(c) ==
  /\ MicrotasksDrained
  /\ pc[c] = "subscribing"
  /\ LET n == connector.confirmed + 1
         queue == BrokerQueue(n)
         topic == selfSubscribeAddress.topic
     IN /\ connector' = [connector EXCEPT !.confirmed = n]
        /\ subscribeUpdate(c, queue, BrokerTag(n))
        /\ returnDestination' = IF topic = "" THEN queue ELSE topic
  /\ identification' = [identification EXCEPT !.subscribing = FALSE]
  /\ emitSelfSubscribed(c, NoCause, "checked")
  /\ UNCHANGED <<nextIndex, tableVars, clock, callerOptions, args, firstTime,
                 subIndex, reqId, sendError, outcome, deliveryVars>>

\* connector.subscribe rejects for the self-subscription of call c
SelfSubscribeFail(c) ==
  /\ MicrotasksDrained
  /\ pc[c] = "subscribing"
  /\ subscribeRollback(c)
  /\ identification' = [identification EXCEPT !.subscribing = FALSE]
  /\ emitSelfSubscribed(c, selfSubscribeError(subscribeError(TransportError)),
                        "checkFailed")
  /\ UNCHANGED <<returnDestination, nextIndex, tableVars, clock, connector,
                 callerOptions, args, firstTime, subIndex, reqId, sendError,
                 outcome, deliveryVars>>

\* a caller invokes router.subscribe({handler, queue, topic, exchange});
\* args[c].destination keeps the queue asked for
Subscribe(c) ==
  /\ NextCall(c)
  /\ \E in \in SubscribeInputs :
       /\ args' = [args EXCEPT ![c] = [kind |-> "subscribe",
                     message |-> NoArgs.message, destination |-> in.queue,
                     ttl |-> 0]]
       /\ subscribe(c, AppHandler, in.queue, in.topic, in.exchange)
  /\ pc' = [pc EXCEPT ![c] = "subscribeAwait"]
  /\ UNCHANGED <<identification, returnDestination, selfSubscribedListeners,
                 tableVars, clock, events, callerOptions, firstTime,
                 checkResult, thrown, reqId, sendError, outcome, deliveryVars>>

\* connector.subscribe resolves for the public subscribe of call c
SubscribeOk(c) ==
  /\ MicrotasksDrained
  /\ pc[c] = "subscribeAwait"
  /\ LET n == connector.confirmed + 1
         r == CHOOSE r \in queuesRoutingTable : r.index = subIndex[c]
         registeredQueue == IF r.queue = "" THEN BrokerQueue(n) ELSE r.queue
     IN /\ connector' = [connector EXCEPT !.confirmed = n]
        /\ subscribeUpdate(c, registeredQueue, BrokerTag(n))
        /\ pc' = [pc EXCEPT ![c] = "done"]
        /\ outcome' = [outcome EXCEPT ![c] =
             [type |-> "resolved",
              value |-> [queue |-> registeredQueue, topic |-> r.topic,
                         exchange |-> r.exchange]]]
  /\ UNCHANGED <<identification, returnDestination, selfSubscribedListeners,
                 nextIndex, tableVars, clock, events, callerOptions, args,
                 firstTime, subIndex, checkResult, thrown, reqId, sendError,
                 deliveryVars>>

\* connector.subscribe rejects for the public subscribe of call c
SubscribeFail(c) ==
  /\ MicrotasksDrained
  /\ pc[c] = "subscribeAwait"
  /\ subscribeRollback(c)
  /\ Reject(c, subscribeError(TransportError))
  /\ UNCHANGED <<identification, returnDestination, selfSubscribedListeners,
                 nextIndex, tableVars, clock, events, connector,
                 callerOptions, args, firstTime, subIndex, checkResult,
                 thrown, reqId, sendError, deliveryVars>>

\* sendRequest resumes after `await checkIfIsSelfSubscribedForResponses()`
SendRequestContinue(c) ==
  /\ pc[c] = "checked"
  /\ sendMQMsg(c, args[c].message, args[c].destination,
               [ttl |-> args[c].ttl], TRUE)
  /\ UNCHANGED <<routerVars, events, callerOptions, args, firstTime,
                 subIndex, checkResult, thrown, sendError, deliveryVars>>

\* sendRequest's catch after the awaited check rejected
SendRequestCatch(c) ==
  /\ pc[c] = "checkFailed"
  /\ Reject(c, sendRequestCheckRejection(thrown[c]))
  /\ UNCHANGED <<routerVars, tableVars, clock, events, connector,
                 callerOptions, args, firstTime, subIndex, checkResult, thrown,
                 reqId, sendError, deliveryVars>>

\* connector.sendMessage resolves for call c
SendOk(c) ==
  /\ MicrotasksDrained
  /\ pc[c] = "sending"
  /\ sendMQMsgReturn(c, args[c].kind = "request")
  /\ UNCHANGED <<routerVars, clock, events, connector, callerOptions, args,
                 firstTime, subIndex, checkResult, thrown, reqId, sendError,
                 deliveryVars>>

\* connector.sendMessage rejects for call c
SendFail(c) ==
  /\ MicrotasksDrained
  /\ pc[c] = "sending"
  /\ sendMQMsgCatch(c, args[c].kind = "request", TransportError)
  /\ UNCHANGED <<routerVars, clock, events, connector, callerOptions, args,
                 firstTime, subIndex, checkResult, thrown, reqId,
                 deliveryVars>>

\* the TTL timer of a pending entry fires; the table emits its timeout event
Timeout(id) ==
  /\ MicrotasksDrained
  /\ HasRequest(requestsRoutingTable, id)
  /\ LET t == requestsTimeout(requestsRoutingTable, futures, id)
     IN /\ requestsRoutingTable' = t.table
        /\ futures' = t.futures
  /\ events' = [events EXCEPT !.timeout = @ + 1]
  /\ UNCHANGED <<routerVars, clock, connector, callVars, deliveryVars>>

TimerFires == \E e \in requestsRoutingTable : Timeout(e.id)

\* ---------------------------------------------------------- receive side
\* what one inbound call did: the tables it leaves, the error it raises,
\* the 'error' events it emits, the handler invocations it makes (each with
\* the list of arguments the handler receives), what the handler returned,
\* the ids it passes to callById and the transport sends it issues
NoEffect ==
  [table |-> requestsRoutingTable, futures |-> futures, raised |-> NoCause,
   emits |-> 0, invoked |-> <<>>, returned |-> "none", callById |-> <<>>,
   sends |-> <<>>]

\* what a handler does once called: it resolves with {message: <payload>},
\* with {message: null}, with an object that has no message, or it fails
HandlerResults == {"response", "null", "undefined", "throws"}
HandlerError == [name |-> "HandlerError", cause |-> NoCause]
ResponsePayload == Buffer("pong")

\* property read `message.replyId` in ownHandler: the envelope built by
\* mqStructure carries replyTo, not replyId
replyIdOf(message) ==
  IF "replyId" \in DOMAIN message THEN message.replyId ELSE Undefined

\* respondToRequest({message, replyId, destination}) and the sendMQMsg it
\* calls with {isRequest: false, message, destination, replyId}: sendMQMsg
\* takes no replyId and calls buildRequest({message, destination}), so the
\* envelope is built with the default replyId ''
\* what reaches sendMQMsg as `message`: the payload, or something that is
\* not a Buffer
Returned(returned) == IF returned = "response" THEN "pong" ELSE returned

\* respondToRequest without its `message === null` test
respondToRequestNoNullTest(r, returned, replyId, destination) ==
  IF ~validateDestination(destination)
    THEN [r EXCEPT !.returned = Returned(returned),
                   !.raised = validateDestinationError]
  ELSE IF returned # "response"
    THEN [r EXCEPT !.returned = Returned(returned),
                   !.raised = buildRequestError]
    ELSE [r EXCEPT !.returned = Returned(returned),
            !.sends = <<[queue |-> destination,
                         message |-> serialize(
                           buildRequestEnvelope(ResponsePayload, "",
                                                clock + 1)),
                         options |-> [ttl |-> defaultTTL]]>>]

respondToRequest(r, returned, replyId, destination) ==
  IF returned = "null" THEN [r EXCEPT !.returned = "null"]
  ELSE IF ~validateDestination(destination)
    THEN [r EXCEPT !.returned = Returned(returned),
                   !.raised = validateDestinationError]
  ELSE IF returned # "response"
    THEN [r EXCEPT !.returned = Returned(returned),
                   !.raised = buildRequestError]
    ELSE [r EXCEPT !.returned = Returned(returned),
            !.sends = <<[queue |-> destination,
                         message |-> serialize(
                           buildRequestEnvelope(ResponsePayload, "",
                                                clock + 1)),
                         options |-> [ttl |-> defaultTTL]]>>]

\* defaultMessageConsumer({message, queue, topic, exchange}); ownHandler
\* hands it the payload as `message`, so message.id and message.replyOn are
\* undefined when the default handler's answer is sent back
noDefaultHandlerError == IErrorNoArgs("MQ_ROUTER_OWN_HANDLER", NoCause)

defaultMessageConsumer(payload, hr) ==
  IF defaultHandler # Null THEN
    LET r == [NoEffect EXCEPT !.invoked =
                <<[handler |-> defaultHandler, arguments |-> <<>>]>>]
    IN IF hr = "throws" THEN [r EXCEPT !.raised = HandlerError]
       ELSE IF hr = "null" THEN [r EXCEPT !.returned = "null"]
       ELSE [r EXCEPT !.returned = Returned(hr), !.raised = TypeError]
  ELSE [NoEffect EXCEPT !.raised = noDefaultHandlerError, !.emits = 1]

\* ownHandler({message, queue, topic, exchange}) called with its argument
ownHandler(message, hr) ==
  IF replyIdOf(message) = ""
    THEN defaultMessageConsumer(message.message, hr)
    ELSE LET r == requestsCallById(requestsRoutingTable, futures,
                                   replyIdOf(message),
                                   [message |-> message.message])
         IN [NoEffect EXCEPT !.table = r.table, !.futures = r.futures,
                             !.callById = <<replyIdOf(message)>>]

\* handler.apply(handler, {message, queue, ...}) in routeMessage: the second
\* argument of Function.prototype.apply is read as an array-like, a plain
\* object has no length, so the handler runs with no argument at all.
\* ownHandler then fails destructuring its parameter and nothing is
\* dispatched; a handler of the application does whatever it does.
applyHandler(handler, message, hr) ==
  LET r == [NoEffect EXCEPT !.invoked =
              <<[handler |-> handler, arguments |-> <<>>]>>]
  IN IF handler = "ownHandler" THEN [r EXCEPT !.raised = TypeError]
     ELSE IF hr = "throws" THEN [r EXCEPT !.raised = HandlerError]
     ELSE [r EXCEPT !.returned = hr]

\* routeMessage({message, consumerTag, ...}) called as a method of the
\* router.  Lookup and handler failures enter the catch block; the promise
\* of respondToRequest is returned without being awaited, so its rejection
\* is not caught
routeMessage(message, consumerTag, hr) ==
  IF ~HasHandler(queuesRoutingTable, consumerTag) THEN
    [NoEffect EXCEPT
       !.raised = IErrorNoArgs("MQ_ROUTER_ROUTING_ERROR",
                               HandlerNotFoundError),
       !.emits = 1]
  ELSE
    LET a == applyHandler(getHandlerByConsumerTag(queuesRoutingTable,
                                                  consumerTag), message, hr)
    IN IF a.raised # NoCause
         THEN [a EXCEPT !.raised = IErrorNoArgs("MQ_ROUTER_ROUTING_ERROR",
                                                a.raised),
                        !.emits = 1]
         ELSE respondToRequest(a, a.returned, message.id,
                               message.replyOn.queue)

DecodeError == [name |-> "DecodeError", cause |-> NoCause]

\* consumeMessages({message, consumerTag, ...}).  bound = FALSE is the call
\* the connector makes: subscribe hands it `this.consumeMessages` detached
\* from the router, so `this` is undefined inside, the first `this.serializer`
\* raises a TypeError and so does `this.sourceIdentifier` in the catch block.
\* bound = TRUE is router.consumeMessages(...) invoked as a method.
consumeMessages(bound, raw, consumerTag, hr) ==
  IF ~bound THEN [NoEffect EXCEPT !.raised = TypeError]
  ELSE IF ~Decodable(raw) THEN
    [NoEffect EXCEPT
       !.raised = IErrorNoArgs("MQ_ROUTER_CONSUME_ERROR", DecodeError),
       !.emits = 1]
  ELSE routeMessage(unserialize(raw), consumerTag, hr)

\* ids of the request envelopes handed to the connector so far
WireIds ==
  {connector.sends[i].message[2] :
     i \in {j \in DOMAIN connector.sends :
              args[connector.sends[j].call].kind = "request"}}

\* the envelope a peer answers request id with
ReplyEnvelope(id) ==
  mqStructure("peer.1", id, [queue |-> Null], "peer", "", "pong")

\* an unsolicited direct message from a peer, which names where it listens
DirectEnvelope ==
  mqStructure("peer.2", "", [queue |-> "peer-q"], "peer", "", "hello")

InboundEnvelopes == {ReplyEnvelope(id) : id \in WireIds} \cup {DirectEnvelope}

\* what can be told of a raw payload that does not decode
GarbageHeader == mqStructure("", "", [queue |-> Null], "", "", "")

KnownTags == {BrokerTag(n) : n \in 1..connector.confirmed}
StaleTag == "ct-0"

\* the consumer tag of a subscribe the broker has accepted while the
\* router is still suspended on `await this.connector.subscribe(...)`: the
\* consumer is live, queuesRoutingTable.update has not run yet
PendingTags ==
  IF \E c \in Calls : pc[c] \in {"subscribing", "subscribeAwait"}
    THEN {BrokerTag(connector.confirmed + 1)} ELSE {}

\* the raw deliveries the broker can make: any envelope on a confirmed
\* consumer tag, a direct message on the tag of a subscribe that is being
\* confirmed or on a tag the router does not know, and a payload that does
\* not decode
Deliveries ==
  {[message |-> m, raw |-> serialize(m), consumerTag |-> t] :
     m \in InboundEnvelopes, t \in KnownTags}
  \cup {[message |-> DirectEnvelope, raw |-> serialize(DirectEnvelope),
          consumerTag |-> t] : t \in PendingTags}
  \cup {[message |-> DirectEnvelope, raw |-> serialize(DirectEnvelope),
          consumerTag |-> StaleTag],
         [message |-> GarbageHeader, raw |-> Garbage,
          consumerTag |-> StaleTag]}

\* what the handler registered for a consumer tag can do once called
HandlerResultsFor(consumerTag) ==
  IF \E r \in queuesRoutingTable :
       r.consumerTag = consumerTag /\ r.handler = AppHandler
    THEN HandlerResults ELSE {"null"}

\* one inbound call runs up to its first suspension on the transport (the
\* send of a response) or to its end
Handled(via, message, raw, consumerTag, r) ==
  /\ lastDelivery = NoDelivery
  /\ r.sends # <<>> => clock < MaxClock
  /\ requestsRoutingTable' = r.table
  /\ futures' = r.futures
  /\ clock' = clock + Len(r.sends)
  /\ lastDelivery' =
       [via |-> via, id |-> message.id, replyTo |-> message.replyTo,
        replyOn |-> message.replyOn.queue, consumerTag |-> consumerTag,
        tagKnown |-> HasHandler(queuesRoutingTable, consumerTag),
        decodable |-> Decodable(raw),
        pendingBefore |-> HasRequest(requestsRoutingTable, message.replyTo),
        changed |-> (r.table # requestsRoutingTable \/ r.futures # futures),
        invoked |-> r.invoked, returned |-> r.returned,
        callById |-> r.callById, sends |-> r.sends,
        awaiting |-> (r.sends # <<>>),
        raised |-> r.raised, emits |-> r.emits]

\* the connector hands a raw delivery to the consumer callback it was given
ConnectorDelivers ==
  /\ MicrotasksDrained
  /\ connector.subscribes > 0
  /\ \E d \in Deliveries :
       Handled("callback", d.message, d.raw, d.consumerTag,
               consumeMessages(FALSE, d.raw, d.consumerTag, "null"))
  /\ UNCHANGED <<routerVars, events, connector, callVars>>

\* router.consumeMessages(...) invoked as a method with a raw delivery
ConsumeMessages ==
  /\ MicrotasksDrained
  /\ \E d \in Deliveries : \E hr \in HandlerResultsFor(d.consumerTag) :
       Handled("consumeMessages", d.message, d.raw, d.consumerTag,
               consumeMessages(TRUE, d.raw, d.consumerTag, hr))
  /\ UNCHANGED <<routerVars, events, connector, callVars>>

\* router.ownHandler({message, queue, topic, exchange}) invoked as a method
OwnHandler ==
  /\ MicrotasksDrained
  /\ \E m \in InboundEnvelopes :
       \E hr \in IF defaultHandler # Null THEN HandlerResults ELSE {"null"} :
         Handled("ownHandler", m, serialize(m), "", ownHandler(m, hr))
  /\ UNCHANGED <<routerVars, events, connector, callVars>>

\* connector.sendMessage resolves for the response of the inbound call
ResponseSendOk ==
  /\ MicrotasksDrained
  /\ lastDelivery.awaiting
  /\ lastDelivery' = [lastDelivery EXCEPT !.awaiting = FALSE]
  /\ UNCHANGED <<routerVars, tableVars, clock, events, connector, callVars>>

\* connector.sendMessage rejects for the response of the inbound call:
\* sendMQMsg rethrows, and nothing on the way up catches it
ResponseSendFail ==
  /\ MicrotasksDrained
  /\ lastDelivery.awaiting
  /\ lastDelivery' = [lastDelivery EXCEPT !.awaiting = FALSE,
                                          !.raised = TransportError]
  /\ UNCHANGED <<routerVars, tableVars, clock, events, connector, callVars>>

\* the promise of the inbound call settles towards whoever made the call
DeliveryReturns ==
  /\ lastDelivery # NoDelivery
  /\ ~lastDelivery.awaiting
  /\ lastDelivery' = NoDelivery
  /\ UNCHANGED <<routerVars, tableVars, clock, events, connector, callVars>>

\* ------------------------------------------------------------------- Next
Next ==
  \/ \E c \in Calls : SendMessage(c)
  \/ \E c \in Calls : SendRequest(c)
  \/ \E c \in Calls : SelfSubscribeOk(c)
  \/ \E c \in Calls : SelfSubscribeFail(c)
  \/ \E c \in Calls : Subscribe(c)
  \/ \E c \in Calls : SubscribeOk(c)
  \/ \E c \in Calls : SubscribeFail(c)
  \/ \E c \in Calls : SendRequestContinue(c)
  \/ \E c \in Calls : SendRequestCatch(c)
  \/ \E c \in Calls : SendOk(c)
  \/ \E c \in Calls : SendFail(c)
  \/ TimerFires
  \/ ConnectorDelivers
  \/ ConsumeMessages
  \/ OwnHandler
  \/ ResponseSendOk
  \/ ResponseSendFail
  \/ DeliveryReturns

Spec == Init /\ [][Next]_vars

\* every call the router awaits at the connector completes, one way or the
\* other; every armed timer fires unless it is cancelled; every continuation
\* of a settled await is run by the event loop
Fairness ==
  /\ \A c \in Calls :
       /\ WF_vars(SelfSubscribeOk(c) \/ SelfSubscribeFail(c))
       /\ WF_vars(SendOk(c) \/ SendFail(c))
       /\ WF_vars(SendRequestContinue(c))
       /\ WF_vars(SendRequestCatch(c))
  /\ WF_vars(TimerFires)

LiveSpec == Spec /\ Fairness

TypeOK ==
  /\ identification \in [subscribed : BOOLEAN, subscribing : BOOLEAN]
  /\ \A c \in Calls : pc[c] \in {"idle", "subscribing", "waiting", "checked",
                                 "checkFailed", "sending", "subscribeAwait",
                                 "done"}

\* ======================================================================
\* Properties
\* ======================================================================
IsRequest(c) == args[c].kind = "request"
IsMessage(c) == args[c].kind = "message"
Registered(c) == IsRequest(c) /\ reqId[c] \in DOMAIN futures
Delivered == lastDelivery.via # "none"
TimedOut(fut, id) ==
  fut[id].state = "rejected" /\ fut[id].value = RequestTimeoutError(id)
SendsOf(c) == {i \in DOMAIN connector.sends : connector.sends[i].call = c}

\* what the caller of call c has observed from the promise it was returned
CallerOutcome(c) ==
  IF outcome[c].type # "future" THEN outcome[c]
  ELSE LET f == futures[outcome[c].id]
       IN IF f.state = "pending" THEN NoOutcome
          ELSE IF f.state = "resolved"
            THEN [type |-> "resolved", value |-> f.value]
            ELSE [type |-> "rejected", error |-> f.value]

\* C1: every registered request is settled exactly once by whichever of
\* reply, timer and send-failure rollback reaches its entry first: a reply
\* delivered while the entry is pending settles it, a settled entry is out
\* of the table, and a reply that finds the entry gone raises no error.
C1_SettledOnceByFirstPath ==
  /\ \A id \in DOMAIN futures :
       /\ futures[id].settles <= 1
       /\ futures[id].settles = 1 <=> ~HasRequest(requestsRoutingTable, id)
  /\ Delivered /\ lastDelivery.replyTo \in DOMAIN futures =>
       IF lastDelivery.pendingBefore
         THEN futures[lastDelivery.replyTo].settles = 1
         ELSE lastDelivery.raised = NoCause

\* C2: a reply whose replyTo is the id of a pending request resolves the
\* future of that request with the reply, once, and removes the entry; the
\* caller of sendRequest then holds a promise resolved with that reply.
C2_ReplyResolvesRequest ==
  \A c \in Calls :
    Registered(c) /\ Delivered /\ lastDelivery.replyTo = reqId[c]
      /\ lastDelivery.pendingBefore =>
        /\ futures[reqId[c]].state = "resolved"
        /\ futures[reqId[c]].value = [message |-> "pong"]
        /\ futures[reqId[c]].settles = 1
        /\ ~HasRequest(requestsRoutingTable, reqId[c])
        /\ pc[c] = "done" => CallerOutcome(c).type = "resolved"

\* C3: a request whose TTL elapsed is rejected with RequestTimeoutError
\* carrying its id, exactly once, its entry is removed and the promise
\* sendRequest returned rejects with that error; a reply for that id that
\* arrives afterwards is a no-op: it settles nothing, raises nothing and
\* notifies nobody.
C3_TimeoutThenLateReplyNoOp ==
  \A c \in Calls :
    Registered(c) /\ TimedOut(futures, reqId[c]) =>
      /\ futures[reqId[c]].settles = 1
      /\ ~HasRequest(requestsRoutingTable, reqId[c])
      /\ pc[c] = "done" =>
           CallerOutcome(c) = [type |-> "rejected",
                               error |-> RequestTimeoutError(reqId[c])]
      /\ Delivered /\ lastDelivery.replyTo = reqId[c] =>
           lastDelivery.raised = NoCause /\ lastDelivery.emits = 0

\* C4: while no self-subscription has completed, at most one transport
\* subscribe for the router's own reply traffic has been issued, however
\* many sendRequest calls have started.
C4_SingleFlightSubscribe ==
  events.selfSubscribed = <<>> => connector.subscribes <= 1

\* C5: once a self-subscription has completed successfully the router is in
\* state subscribed (subscribed true, subscribing false) and holds exactly
\* one confirmed registration for its own reply traffic.
C5_SubscribedAfterSuccess ==
  (\E i \in DOMAIN events.selfSubscribed : events.selfSubscribed[i] = NoCause)
    => /\ identification = [subscribed |-> TRUE, subscribing |-> FALSE]
       /\ Cardinality({r \in queuesRoutingTable :
                         r.handler = "ownHandler"}) = 1

\* C6: all sendRequest calls that entered the bootstrap before any
\* self-subscription completed leave it with the same outcome.
C6_SameBootstrapOutcome ==
  \A c, d \in Calls :
    firstTime[c] /\ firstTime[d] /\ checkResult[c] # "none"
      /\ checkResult[d] # "none" => checkResult[c] = checkResult[d]

\* C7: a failed bootstrap subscribe leaves the router idle, rolls back its
\* registration, broadcasts the error on 'selfSubscribed' (every waiter gets
\* it), raises MQ_ROUTER_SELF_SUBSCRIBE with the subscribe error as cause,
\* which reaches the caller inside MQ_ROUTER_SEND_REQUEST_ERROR; the failed
\* call builds no envelope, sends nothing, registers nothing; and the next
\* sendRequest issues a fresh transport subscribe.
C7_BootstrapFailure ==
  [][\A c \in Calls :
       /\ (pc[c] = "subscribing" /\ pc'[c] = "checkFailed") =>
            /\ identification' = [subscribed |-> FALSE, subscribing |-> FALSE]
            /\ thrown'[c] = IError("MQ_ROUTER_SELF_SUBSCRIBE",
                                   subscribeError(TransportError))
            /\ events'.selfSubscribed =
                 Append(events.selfSubscribed, thrown'[c])
            /\ \A w \in Calls : pc[w] = "waiting" =>
                 pc'[w] = "checkFailed" /\ thrown'[w] = thrown'[c]
            /\ \A r \in queuesRoutingTable' : r.index # subIndex[c]
       /\ pc[c] = "checkFailed" =>
            /\ pc'[c] \in {"checkFailed", "done"}
            /\ reqId'[c] = "" /\ SendsOf(c) = {}
            /\ pc'[c] = "done" =>
                 outcome'[c] = [type |-> "rejected", error |->
                   IError("MQ_ROUTER_SEND_REQUEST_ERROR", thrown[c])]
       /\ (pc[c] = "idle" /\ pc'[c] # "idle" /\ IsRequest(c)'
             /\ events.selfSubscribed # <<>>
             /\ events.selfSubscribed[Len(events.selfSubscribed)] # NoCause
             /\ \A d \in Calls : pc[d] # "subscribing") =>
            /\ pc'[c] = "subscribing"
            /\ connector'.subscribes = connector.subscribes + 1
    ]_vars

\* a bootstrap failed, its caller was rejected, and a later sendRequest is
\* bootstrapping again
C7_Witness ==
  \E c, d \in Calls :
    /\ checkResult[c] = "failed" /\ pc[c] = "done"
    /\ outcome[c].type = "rejected"
    /\ ~firstTime[d] /\ pc[d] = "subscribing"

\* C8 as stated: whenever the transport send of a request has failed, the
\* future of that request is rejected with the send error (never with a
\* timeout) and its entry is out of the table.
C8_SendFailureAlwaysWins ==
  \A c \in Calls :
    Registered(c) /\ sendError[c] # NoCause =>
      /\ futures[reqId[c]] = [state |-> "rejected", value |-> sendError[c],
                              settles |-> 1]
      /\ ~HasRequest(requestsRoutingTable, reqId[c])

\* C8 amended: when the transport send of a request fails while its entry is
\* still pending, the entry is removed with the send error and the future
\* is rejected with it, for good (no timeout follows); when the entry was
\* already settled, the rollback changes nothing.  Either way the promise
\* sendRequest returned is that future and the entry is gone.
C8_SendFailureRollsBack ==
  [][\A c \in Calls : Registered(c) =>
       LET id == reqId[c] IN
       /\ (pc[c] = "sending" /\ sendError'[c] # NoCause) =>
            /\ futures'[id] =
                 IF HasRequest(requestsRoutingTable, id)
                   THEN [state |-> "rejected", value |-> sendError'[c],
                         settles |-> 1]
                   ELSE futures[id]
            /\ ~HasRequest(requestsRoutingTable', id)
            /\ pc'[c] = "done"
            /\ outcome'[c] = [type |-> "future", id |-> id]
       /\ (futures[id].state = "rejected" /\ futures[id].value = sendError[c]) =>
            /\ futures'[id] = futures[id]
            /\ ~HasRequest(requestsRoutingTable', id)
    ]_vars

\* a request whose send failed while pending: rejected with the send error
C8_Witness ==
  \E c \in Calls :
    /\ Registered(c) /\ sendError[c] = TransportError /\ pc[c] = "done"
    /\ CallerOutcome(c) = [type |-> "rejected", error |-> TransportError]
    /\ ~HasRequest(requestsRoutingTable, reqId[c])

\* C9: a sendMessage call with a Buffer payload and a non-empty destination
\* queue hands the connector exactly one message, addressed to that queue,
\* whose wire payload decodes to an envelope carrying the payload and an
\* empty replyTo.
C9_SendMessageOneSend ==
  \A c \in Calls :
    IsMessage(c) /\ args[c].message.isBuffer
      /\ validateDestination(args[c].destination) =>
        /\ Cardinality(SendsOf(c)) = 1
        /\ \A i \in SendsOf(c) :
             /\ connector.sends[i].queue = args[c].destination
             /\ Decodable(connector.sends[i].message)
             /\ unserialize(connector.sends[i].message).message =
                  args[c].message.bytes
             /\ unserialize(connector.sends[i].message).replyTo = ""

\* a valid sendMessage accepted by the transport
C9_Witness ==
  \E c \in Calls :
    /\ IsMessage(c) /\ pc[c] = "done"
    /\ outcome[c] = [type |-> "resolved", value |-> TRUE]
    /\ Cardinality(SendsOf(c)) = 1

\* C10: a rejected sendMessage carries MQ_ROUTER_SEND_MESSAGE_ERROR and a
\* rejected sendRequest (before any future exists) carries
\* MQ_ROUTER_SEND_REQUEST_ERROR, each with the underlying cause inside.
C10_FailuresAreWrapped ==
  \A c \in Calls :
    pc[c] = "done" /\ outcome[c].type = "rejected"
      /\ (IsMessage(c) \/ IsRequest(c)) =>
      /\ outcome[c].error.name =
           IF IsMessage(c) THEN "MQ_ROUTER_SEND_MESSAGE_ERROR"
                           ELSE "MQ_ROUTER_SEND_REQUEST_ERROR"
      /\ outcome[c].error.cause # NoCause

\* C11: every finished public subscribe whose transport call succeeded has
\* exactly one registration, carrying the broker-confirmed queue and consumer
\* tag; every one whose transport call failed has none and was rejected with
\* MQ_ROUTER_SUBSCRIBE carrying the transport's error as cause.
IsSubscribe(c) == args[c].kind = "subscribe"

C11_SubscribeRegistersOrRollsBack ==
  \A c \in Calls :
    IsSubscribe(c) /\ pc[c] = "done" =>
      LET mine == {r \in queuesRoutingTable : r.index = subIndex[c]} IN
      IF outcome[c].type = "resolved"
        THEN /\ Cardinality(mine) = 1
             /\ \A r \in mine :
                  /\ r.queue = outcome[c].value.queue
                  /\ r.consumerTag # Null
                  /\ r.handler = AppHandler
        ELSE /\ mine = {}
             /\ outcome[c] =
                  [type |-> "rejected",
                   error |-> IError("MQ_ROUTER_SUBSCRIBE", TransportError)]

\* an inbound delivery that came through consumeMessages, as the callback
\* the connector holds or as a method of the router
ViaConsume == lastDelivery.via \in {"callback", "consumeMessages"}

\* C12: when the handler of an inbound envelope returned a non-null payload
\* and the envelope names a reply destination, exactly one response is sent,
\* to the queue in the inbound replyOn, and its replyTo is the inbound id.
C12_ResponseCorrelated ==
  lastDelivery.returned = "pong" /\ lastDelivery.replyOn # Null =>
    /\ Len(lastDelivery.sends) = 1
    /\ lastDelivery.sends[1].queue = lastDelivery.replyOn
    /\ unserialize(lastDelivery.sends[1].message).replyTo = lastDelivery.id

\* C13: ownHandler passes an envelope with a non-empty replyTo to callById
\* with that replyTo as id; an envelope with an empty replyTo goes to the
\* default handler, and with none configured it raises MQ_ROUTER_OWN_HANDLER
\* and the correlation table is left as it was.
C13_OwnHandlerDispatch ==
  lastDelivery.via = "ownHandler" =>
    IF lastDelivery.replyTo # ""
      THEN lastDelivery.callById = <<lastDelivery.replyTo>>
      ELSE /\ lastDelivery.callById = <<>>
           /\ ~lastDelivery.changed
           /\ IF defaultHandler = Null
                THEN lastDelivery.raised =
                       IError("MQ_ROUTER_OWN_HANDLER", NoCause)
                ELSE Len(lastDelivery.invoked) = 1

\* C14: a decodable delivery on a consumer tag with no registration fails
\* with MQ_ROUTER_ROUTING_ERROR whose cause is HandlerNotFoundError, invokes
\* no handler, sends no response, and notifies the error collector once.
C14_StaleTagRoutingError ==
  ViaConsume /\ lastDelivery.decodable /\ ~lastDelivery.tagKnown =>
    /\ lastDelivery.raised =
         IError("MQ_ROUTER_ROUTING_ERROR", HandlerNotFoundError)
    /\ lastDelivery.invoked = <<>>
    /\ lastDelivery.sends = <<>>
    /\ lastDelivery.emits = 1

\* C15: a sendMessage or sendRequest that reached validateDestination with
\* an empty or missing queue is rejected with MQ_ROUTER_VALIDATE_DESTINATION
\* (as the error or as its cause), has issued no transport send and has
\* registered no correlation entry; one with a non-empty queue and a Buffer
\* payload has issued its send.
ReachedSendMQMsg(c) ==
  \/ IsMessage(c) /\ pc[c] \in {"sending", "done"}
  \/ IsRequest(c) /\ checkResult[c] = "ok" /\ pc[c] \in {"sending", "done"}

C15_InvalidDestinationRejected ==
  \A c \in Calls :
    ReachedSendMQMsg(c) =>
      IF validateDestination(args[c].destination)
        THEN args[c].message.isBuffer => Cardinality(SendsOf(c)) = 1
        ELSE /\ outcome[c].type = "rejected"
             /\ "MQ_ROUTER_VALIDATE_DESTINATION" \in
                  {outcome[c].error.name, outcome[c].error.cause.name}
             /\ SendsOf(c) = {}
             /\ reqId[c] \notin DOMAIN futures

\* C16: the self-subscription is made on the own listen address the router
\* was constructed with; once it has succeeded the return destination is the
\* listen topic when that is non-empty, else the queue the broker assigned;
\* and no request envelope on the wire has a null replyOn queue.
C16_ReturnDestinationFromListen ==
  /\ \A r \in queuesRoutingTable :
       r.handler = "ownHandler" =>
         /\ r.topic = Listen.topic
         /\ r.exchange = Listen.exchange
         /\ r.consumerTag = Null => r.queue = Listen.queue
         /\ r.consumerTag # Null /\ returnDestination # Null =>
              returnDestination \in
                (IF Listen.topic # "" THEN {Listen.topic}
                 ELSE {q.queue : q \in {x \in queuesRoutingTable :
                                          x.handler = "ownHandler"}})
  /\ \A i \in DOMAIN connector.sends :
       IsRequest(connector.sends[i].call) =>
         unserialize(connector.sends[i].message).replyOn.queue # Null

\* C17: for a decodable delivery on a registered consumer tag, the handler
\* of that registration is invoked exactly once, with one argument holding
\* the decoded envelope and the delivery context.
C17_HandlerInvokedOnceWithContext ==
  ViaConsume /\ lastDelivery.decodable /\ lastDelivery.tagKnown =>
    lastDelivery.invoked =
      <<[handler |-> getHandlerByConsumerTag(queuesRoutingTable,
                                             lastDelivery.consumerTag),
         arguments |-> <<[message |-> lastDelivery.id,
                          consumerTag |-> lastDelivery.consumerTag]>>]>>

\* C18: a delivery whose payload does not decode raises
\* MQ_ROUTER_CONSUME_ERROR with the decode error as cause, notifies the
\* error collector, invokes no handler, sends nothing and leaves the
\* tables as they were.
C18_DecodeFailure ==
  ViaConsume /\ ~lastDelivery.decodable =>
    /\ lastDelivery.raised = IError("MQ_ROUTER_CONSUME_ERROR", DecodeError)
    /\ lastDelivery.emits = 1
    /\ lastDelivery.invoked = <<>>
    /\ lastDelivery.sends = <<>>
    /\ ~lastDelivery.changed

\* the promise sendRequest returned has settled
Settled(c) == CallerOutcome(c) # NoOutcome

\* how many of the three ways have settled the sendRequest call c: a reply,
\* a failure of the send or before it, a timeout
WaysSettled(c) ==
  LET viaFuture == outcome[c].type = "future"
      f == futures[outcome[c].id]
      byReply == viaFuture /\ f.state = "resolved"
      byTimeout == Registered(c) /\ TimedOut(futures, reqId[c])
      byFailure == \/ outcome[c].type = "rejected"
                   \/ viaFuture /\ f.state = "rejected"
                        /\ ~TimedOut(futures, outcome[c].id)
  IN Cardinality({w \in {"reply", "failure", "timeout"} :
                    \/ w = "reply" /\ byReply
                    \/ w = "failure" /\ byFailure
                    \/ w = "timeout" /\ byTimeout})

\* C19: when every transport call completes and every timer fires, every
\* sendRequest call eventually settles and every registered entry eventually
\* leaves the correlation table; a settled call was settled in exactly one
\* of the three ways (reply, send or pre-send failure, timeout), its future
\* was settled once, and its outcome never changes afterwards.
C19_EverySendRequestSettles ==
  /\ \A c \in Calls : IsRequest(c) ~> Settled(c)
  /\ \A c \in Calls :
       (Registered(c) /\ HasRequest(requestsRoutingTable, reqId[c]))
         ~> ~HasRequest(requestsRoutingTable, reqId[c])
  /\ [](\A c \in Calls :
          /\ IsRequest(c) /\ Settled(c) => WaysSettled(c) = 1
          /\ Registered(c) => futures[reqId[c]].settles <= 1)
  /\ [][\A c \in Calls :
          IsRequest(c) /\ Settled(c) => CallerOutcome(c)' = CallerOutcome(c)
       ]_vars

\* one request was settled by its timeout and another by the failure of
\* its send
C19_Witness ==
  \E c, d \in Calls :
    /\ Registered(c) /\ Settled(c) /\ TimedOut(futures, reqId[c])
    /\ Registered(d) /\ Settled(d)
    /\ CallerOutcome(d) = [type |-> "rejected", error |-> TransportError]

\* C20: the step of sendRequest that hands the envelope to the connector
\* leaves the envelope's id registered in the correlation table, with the
\* ttl of the call's options or the default TTL when none was given, so a
\* reply delivered while the send is still in flight arrives with the entry
\* in the table (unless its timer has fired); the sends of sendMessage and
\* of responses leave the correlation table as it was.
EntryOf(tbl, id) == CHOOSE e \in tbl : e.id = id

C20_RegisteredBeforeSend ==
  [][/\ \A c \in Calls :
          /\ SendsOf(c)' # SendsOf(c) =>
               IF IsRequest(c)
                 THEN /\ HasRequest(requestsRoutingTable', reqId'[c])
                      /\ ~HasRequest(requestsRoutingTable, reqId'[c])
                      /\ EntryOf(requestsRoutingTable', reqId'[c]).ttl =
                           IF args[c].ttl # 0 THEN args[c].ttl
                                              ELSE defaultTTL
                      /\ \A i \in SendsOf(c)' :
                           unserialize(connector'.sends[i].message).id =
                             reqId'[c]
                 ELSE /\ requestsRoutingTable' = requestsRoutingTable
                      /\ futures' = futures
          /\ (IsRequest(c) /\ pc[c] = "sending"
                /\ ~TimedOut(futures, reqId[c])
                /\ lastDelivery = NoDelivery /\ lastDelivery' # NoDelivery
                /\ lastDelivery'.replyTo = reqId[c]) =>
               lastDelivery'.pendingBefore
     /\ (lastDelivery.sends = <<>> /\ lastDelivery'.sends # <<>>) =>
          /\ requestsRoutingTable' = requestsRoutingTable
          /\ futures' = futures
    ]_vars

\* a reply to a request is delivered while the send of that request is
\* still awaited, and its entry is in the table; a response was sent too
C20_Witness ==
  \E c \in Calls :
    /\ IsRequest(c) /\ pc[c] = "sending"
    /\ lastDelivery.replyTo = reqId[c] /\ lastDelivery.pendingBefore
    /\ EntryOf(requestsRoutingTable, reqId[c]).ttl = 2000

\* C21: when routeMessage runs a handler that resolves with a null response,
\* it completes without an error, issues no transport send and notifies the
\* error collector of nothing; a transport send is issued for an inbound
\* delivery only when the handler resolved with a payload.
C21_NullResponseSendsNothing ==
  /\ lastDelivery.via = "consumeMessages" /\ lastDelivery.returned = "null" =>
       /\ lastDelivery.raised = NoCause
       /\ lastDelivery.emits = 0
       /\ lastDelivery.sends = <<>>
       /\ ~lastDelivery.awaiting
  /\ lastDelivery.sends # <<>> => lastDelivery.returned = "pong"

\* routeMessage has run a handler of the application that resolved with a
\* null response
C21_Witness ==
  /\ lastDelivery.via = "consumeMessages"
  /\ lastDelivery.returned = "null"
  /\ lastDelivery.raised = NoCause
  /\ Len(lastDelivery.invoked) = 1
  /\ lastDelivery.invoked[1].handler = AppHandler

\* C22: a decodable delivery on the consumer tag of a subscribe that has
\* succeeded, made at any moment from the broker's acceptance of the
\* subscribe on, found its registration by that tag when it was looked up
\* (no HandlerNotFoundError) and was routed to the handler of that subscribe.
C22_DeliveryOnConfirmedTagRouted ==
  \A r \in queuesRoutingTable :
    ViaConsume /\ lastDelivery.decodable
      /\ r.consumerTag = lastDelivery.consumerTag =>
        /\ lastDelivery.tagKnown
        /\ Len(lastDelivery.invoked) = 1
        /\ lastDelivery.invoked[1].handler = r.handler

====
